---- MODULE Spec2Model ----
(***************************************************************************)
(* Analisador Rapido de CSV (main.py): type inference of a cell, the       *)
(* single pass over the rows of a CSV file, and the per-column report.     *)
(*                                                                         *)
(* A string is a sequence of one-character strings, so that strip(),       *)
(* int() and float() are computed character by character.                  *)
(***************************************************************************)
EXTENDS Integers, Sequences, FiniteSets, TLC

VARIABLES
    pc,               \* position in analisar_csv: "inicio", "lendo", "concluido", "erro_vazio"
    leitor,           \* the csv.reader iterator: "aberto" or "esgotado"
    lidas,            \* the rows the reader has yielded so far, header first
    cabecalho,        \* main.py:45
    num_colunas,      \* main.py:46
    dados_colunas,    \* main.py:52
    contagem_linhas,  \* main.py:53
    saida,            \* what was printed: <<>>, <<"erro_vazio">> or <<"relatorio">>
    relatorio,        \* the column blocks printed by imprimir_relatorio, in order
    valor,            \* argument of one call of inferir_tipo_dado
    tipo              \* its result, "pendente" before the call

vars == <<pc, leitor, lidas, cabecalho, num_colunas, dados_colunas,
          contagem_linhas, saida, relatorio, valor, tipo>>

(***************************************************************************)
(* Bounds of the model.                                                    *)
(***************************************************************************)
MaxLinhas == 2      \* data rows read after the header
MaxCampos == 2      \* fields of a row (header or data): 0..MaxCampos
MaxColuna == 6      \* length of a column in SpecColuna
MaxLen    == 3      \* length of a string in SpecInferir

Min(a, b) == IF a < b THEN a ELSE b

Front(s) == SubSeq(s, 1, Len(s) - 1)

Last(s) == s[Len(s)]

Range(s) == {s[k] : k \in 1..Len(s)}

SeqAte(S, n) == UNION {[1..m -> S] : m \in 0..n}

(***************************************************************************)
(* Characters.                                                             *)
(***************************************************************************)
Digitos == {"0", "1", "2", "3", "4", "5", "6", "7", "8", "9"}

Espacos == {" ", "\t"}

Sinais == {"+", "-"}

\* str.lower() on the letters that matter to float()
Minuscula(c) ==
    CASE c = "E" -> "e"
      [] c = "N" -> "n"
      [] c = "A" -> "a"
      [] c = "I" -> "i"
      [] c = "F" -> "f"
      [] c = "T" -> "t"
      [] c = "Y" -> "y"
      [] OTHER   -> c

Minusculas(s) == [k \in 1..Len(s) |-> Minuscula(s[k])]

(***************************************************************************)
(* str.strip(): drops leading and trailing whitespace (main.py:62).        *)
(***************************************************************************)
RECURSIVE StripEsq(_)
StripEsq(s) ==
    IF s # <<>> /\ s[1] \in Espacos THEN StripEsq(Tail(s)) ELSE s

RECURSIVE StripDir(_)
StripDir(s) ==
    IF s # <<>> /\ s[Len(s)] \in Espacos THEN StripDir(Front(s)) ELSE s

\* variant: the cell is stored as read
strip_identidade(s) == s

strip(s) == StripDir(StripEsq(s))

(***************************************************************************)
(* int(valor) (main.py:25): surrounding whitespace is ignored, then an     *)
(* optional sign, then a scan over digits and underscores that remembers   *)
(* the previous character; an underscore is rejected at the start, at the  *)
(* end and after another underscore.                                       *)
(***************************************************************************)
RECURSIVE VarreDigitos(_, _, _)
VarreDigitos(s, i, prev) ==
    IF i > Len(s)
    THEN prev \in Digitos
    ELSE IF s[i] \in Digitos
         THEN VarreDigitos(s, i + 1, s[i])
         ELSE IF s[i] = "_"
              THEN prev \in Digitos /\ VarreDigitos(s, i + 1, "_")
              ELSE FALSE

SemSinal(t) == IF t # <<>> /\ t[1] \in Sinais THEN Tail(t) ELSE t

ConverteInt(s) == VarreDigitos(SemSinal(strip(s)), 1, "")

(***************************************************************************)
(* float(valor) (main.py:31): surrounding whitespace is ignored; every     *)
(* underscore must stand between two digits and is then removed; what is   *)
(* left is [sign] (inf | infinity | nan) in any case, or                   *)
(* [sign] digits [. digits] [e [sign] digits] with a digit in the mantissa.*)
(***************************************************************************)
RECURSIVE ContaDigitos(_, _)
ContaDigitos(s, i) ==
    IF i <= Len(s) /\ s[i] \in Digitos THEN 1 + ContaDigitos(s, i + 1) ELSE 0

SublinhadosValidos(t) ==
    \A k \in 1..Len(t) :
        t[k] = "_" => /\ k > 1
                      /\ k < Len(t)
                      /\ t[k - 1] \in Digitos
                      /\ t[k + 1] \in Digitos

NaoEhUnderscore(c) == c # "_"

SemSublinhados(t) == SelectSeq(t, NaoEhUnderscore)

PalavrasNaoFinitas ==
    { <<"i", "n", "f">>,
      <<"i", "n", "f", "i", "n", "i", "t", "y">>,
      <<"n", "a", "n">> }

VarreDecimal(u) ==
    LET n1   == ContaDigitos(u, 1)
        i1   == 1 + n1
        dot  == i1 <= Len(u) /\ u[i1] = "."
        n2   == IF dot THEN ContaDigitos(u, i1 + 1) ELSE 0
        i2   == IF dot THEN i1 + 1 + n2 ELSE i1
        temE == i2 <= Len(u) /\ Minuscula(u[i2]) = "e"
        i3   == IF i2 + 1 <= Len(u) /\ u[i2 + 1] \in Sinais THEN i2 + 2 ELSE i2 + 1
        n3   == ContaDigitos(u, i3)
    IN  /\ n1 + n2 > 0
        /\ IF temE THEN n3 > 0 /\ i3 + n3 = Len(u) + 1
                   ELSE i2 = Len(u) + 1

ConverteFloat(s) ==
    LET t == strip(s)
        u == SemSinal(SemSublinhados(t))
    IN  /\ SublinhadosValidos(t)
        /\ \/ Minusculas(u) \in PalavrasNaoFinitas
           \/ VarreDecimal(u)

(***************************************************************************)
(* inferir_tipo_dado (main.py:19-36).                                      *)
(***************************************************************************)
\* variant: float() is tried before int()
inferir_float_primeiro(v) ==
    IF v = <<>> THEN "vazio"
    ELSE IF ConverteFloat(v) THEN "float"
    ELSE IF ConverteInt(v) THEN "int"
    ELSE "string"

inferir_tipo_dado(v) ==
    IF v = <<>> THEN "vazio"
    ELSE IF ConverteInt(v) THEN "int"
    ELSE IF ConverteFloat(v) THEN "float"
    ELSE "string"

(***************************************************************************)
(* collections.Counter: the distinct elements in the order of their first  *)
(* insertion, each with its count, as a sequence of <<element, count>>.    *)
(***************************************************************************)
Posicao(c, x) == CHOOSE k \in 1..Len(c) : c[k][1] = x

Contar(c, x) ==
    IF \E k \in 1..Len(c) : c[k][1] = x
    THEN [c EXCEPT ![Posicao(c, x)] = <<x, @[2] + 1>>]
    ELSE Append(c, <<x, 1>>)

RECURSIVE Counter(_)
Counter(s) == IF s = <<>> THEN <<>> ELSE Contar(Counter(Front(s)), Last(s))

(***************************************************************************)
(* Counter.most_common(n) is heapq.nlargest(n, items, key=count), which is *)
(* sorted(items, key=count, reverse=True)[:n]: a stable sort, so items of  *)
(* equal count keep the Counter's order.                                   *)
(***************************************************************************)
\* variant: an unstable sort, a later item of equal count goes first
InserirAntesDosIguais(s, it) ==
    LET p == Cardinality({k \in 1..Len(s) : s[k][2] > it[2]})
    IN  SubSeq(s, 1, p) \o <<it>> \o SubSeq(s, p + 1, Len(s))

Inserir(s, it) ==
    LET p == Cardinality({k \in 1..Len(s) : s[k][2] >= it[2]})
    IN  SubSeq(s, 1, p) \o <<it>> \o SubSeq(s, p + 1, Len(s))

RECURSIVE OrdenarDesc(_)
OrdenarDesc(items) ==
    IF items = <<>> THEN <<>>
    ELSE Inserir(OrdenarDesc(Front(items)), Last(items))

most_common(c, n) == SubSeq(OrdenarDesc(c), 1, Min(n, Len(c)))

(***************************************************************************)
(* One column's block of imprimir_relatorio (main.py:87-114).              *)
(***************************************************************************)
NumMaisComuns == 5

NaoVazio(v) == v # <<>>

valores_nao_vazios(valores_coluna) == SelectSeq(valores_coluna, NaoVazio)

total_valores(valores_coluna) == Len(valores_coluna)

valores_vazios(valores_coluna) ==
    total_valores(valores_coluna) - Len(valores_nao_vazios(valores_coluna))

contagem_valores(valores_coluna) == Counter(valores_nao_vazios(valores_coluna))

contagem_unicos(valores_coluna) ==
    Cardinality(Range(valores_nao_vazios(valores_coluna)))

tipos_inferidos(valores_coluna) ==
    LET nv == valores_nao_vazios(valores_coluna)
    IN  Counter([k \in 1..Len(nv) |-> inferir_tipo_dado(nv[k])])

\* the precedence order of the types
Precedencia == <<"vazio", "int", "float", "string">>

\* variant: a tie is settled by the precedence order of the types
tipo_por_precedencia(valores_coluna) ==
    LET c   == tipos_inferidos(valores_coluna)
        mx  == CHOOSE m \in {c[k][2] : k \in 1..Len(c)} :
                   \A k \in 1..Len(c) : c[k][2] <= m
        top == {c[k][1] : k \in {j \in 1..Len(c) : c[j][2] = mx}}
        p   == CHOOSE i \in 1..Len(Precedencia) :
                   /\ Precedencia[i] \in top
                   /\ \A j \in 1..(i - 1) : Precedencia[j] \notin top
    IN  Precedencia[p]

tipo_predominante(valores_coluna) ==
    most_common(tipos_inferidos(valores_coluna), 1)[1][1]

\* str.upper() of a type name (main.py:106)
upper(t) ==
    CASE t = "vazio"  -> "VAZIO"
      [] t = "int"    -> "INT"
      [] t = "float"  -> "FLOAT"
      [] t = "string" -> "STRING"

BlocoColuna(coluna, valores_coluna) ==
    IF valores_nao_vazios(valores_coluna) = <<>>
    THEN [coluna |-> coluna, todos_vazios |-> TRUE]
    ELSE [coluna       |-> coluna,
          todos_vazios |-> FALSE,
          nao_vazios   |-> Len(valores_nao_vazios(valores_coluna)),
          total        |-> total_valores(valores_coluna),
          vazios       |-> valores_vazios(valores_coluna),
          unicos       |-> contagem_unicos(valores_coluna),
          tipo         |-> upper(tipo_predominante(valores_coluna)),
          mais_comuns  |-> most_common(contagem_valores(valores_coluna),
                                       NumMaisComuns)]

(***************************************************************************)
(* imprimir_relatorio (main.py:72-118): one block per header, in header    *)
(* order; an all-empty column prints its one line and the loop continues.  *)
(***************************************************************************)
\* variant: the loop stops at the first all-empty column
RECURSIVE relatorio_ate_vazia(_, _)
relatorio_ate_vazia(cab, dados) ==
    IF cab = <<>> THEN <<>>
    ELSE LET b == BlocoColuna(cab[1], dados[cab[1]])
         IN  IF b.todos_vazios THEN <<b>>
             ELSE <<b>> \o relatorio_ate_vazia(Tail(cab), dados)

imprimir_relatorio(cab, dados) ==
    [i \in 1..Len(cab) |-> BlocoColuna(cab[i], dados[cab[i]])]

(***************************************************************************)
(* analisar_csv (main.py:38-70).                                           *)
(***************************************************************************)

\* next(leitor) at main.py:45: prox is <<>> when the reader has no row
\* (StopIteration), <<row>> when it yields the header row.
\* variant: a reader with no row is taken for a header with no field
abrir_sem_erro(prox) ==
    LET cab == IF prox = <<>> THEN <<>> ELSE prox[1]
    IN  [pc              |-> "lendo",
         cabecalho       |-> cab,
         num_colunas     |-> Len(cab),
         dados_colunas   |-> [col \in Range(cab) |-> <<>>],
         contagem_linhas |-> 0,
         saida           |-> <<>>]

abrir(prox) ==
    IF prox = <<>>
    THEN [pc              |-> "erro_vazio",
          cabecalho       |-> <<>>,
          num_colunas     |-> 0,
          dados_colunas   |-> <<>>,
          contagem_linhas |-> 0,
          saida           |-> <<[msg |-> "erro_vazio"]>>]
    ELSE [pc              |-> "lendo",
          cabecalho       |-> prox[1],
          num_colunas     |-> Len(prox[1]),
          dados_colunas   |-> [col \in Range(prox[1]) |-> <<>>],
          contagem_linhas |-> 0,
          saida           |-> <<>>]

\* variant: the value is put before the stored ones
RECURSIVE despachar_na_frente(_, _, _, _)
despachar_na_frente(dados, cab, linha, i) ==
    IF i > Len(linha) THEN dados
    ELSE despachar_na_frente(
             [dados EXCEPT ![cab[i]] = <<strip(linha[i])>> \o @],
             cab, linha, i + 1)

\* the loop of main.py:61-62 from field i on
RECURSIVE despachar(_, _, _, _)
despachar(dados, cab, linha, i) ==
    IF i > Len(linha) THEN dados
    ELSE despachar([dados EXCEPT ![cab[i]] = Append(@, strip(linha[i]))],
                   cab, linha, i + 1)

\* variant: a row of another width still delivers its leading fields
processar_linha_parcial(dados, cab, n, linha) ==
    despachar(dados, cab, SubSeq(linha, 1, Min(Len(linha), n)), 1)

\* variant: each field goes to the column before its own
processar_linha_deslocada(dados, cab, n, linha) ==
    IF Len(linha) # n \/ linha = <<>> THEN dados
    ELSE despachar(dados, cab, Tail(linha) \o <<linha[1]>>, 1)

\* the body of the loop after the count (main.py:58-62)
processar_linha(dados, cab, n, linha) ==
    IF Len(linha) # n THEN dados ELSE despachar(dados, cab, linha, 1)

(***************************************************************************)
(* The inputs: header names and cells are drawn from samples; a row of the *)
(* header's width takes every combination of the sample cells, a row of    *)
(* another width repeats one cell.                                         *)
(***************************************************************************)
NomesAmostra == {<<"x">>, <<"y">>}

CelulasAmostra == {<<>>, <<" ">>, <<" ", "a", " ">>}

CelulaDesalinhada == <<" ", "a", " ">>

Cabecalhos == SeqAte(NomesAmostra, MaxCampos)

Linhas(n) ==
    [1..n -> CelulasAmostra]
        \cup {[k \in 1..w |-> CelulaDesalinhada] : w \in (0..MaxCampos) \ {n}}

ValoresAmostra ==
    { <<"7">>, <<"-", "3">>, <<"1", ".", "5">>, <<"2", "e", "1">>,
      <<"a", "b">>, <<"x">> }

Alfabeto == {" ", "+", "-", "4", ".", "e", "_", "n", "a", "N", "i", "f"}

(***************************************************************************)
(* Actions.                                                                *)
(***************************************************************************)
Init ==
    /\ pc = "inicio"
    /\ leitor = "aberto"
    /\ lidas = <<>>
    /\ cabecalho = <<>>
    /\ num_colunas = 0
    /\ dados_colunas = <<>>
    /\ contagem_linhas = 0
    /\ saida = <<>>
    /\ relatorio = <<>>
    /\ valor = <<>>
    /\ tipo = "pendente"

Abrir(prox) ==
    LET e == abrir(prox)
    IN  /\ pc = "inicio"
        /\ leitor = "aberto"
        /\ lidas' = lidas \o prox
        /\ leitor' = IF prox = <<>> THEN "esgotado" ELSE "aberto"
        /\ pc' = e.pc
        /\ cabecalho' = e.cabecalho
        /\ num_colunas' = e.num_colunas
        /\ dados_colunas' = e.dados_colunas
        /\ contagem_linhas' = e.contagem_linhas
        /\ saida' = e.saida
        /\ UNCHANGED <<relatorio, valor, tipo>>

\* the file has no row at all (main.py:47-49)
AbrirVazio == Abrir(<<>>)

\* the first row is the header (main.py:45-53)
LerCabecalho == \E cab \in Cabecalhos : Abrir(<<cab>>)

\* one iteration of the loop (main.py:56-62)
ProcessarLinha ==
    /\ pc = "lendo"
    /\ leitor = "aberto"
    /\ Len(lidas) - 1 < MaxLinhas
    /\ \E linha \in Linhas(num_colunas) :
           /\ lidas' = Append(lidas, linha)
           /\ contagem_linhas' = contagem_linhas + 1
           /\ dados_colunas' =
                  processar_linha(dados_colunas, cabecalho, num_colunas, linha)
    /\ UNCHANGED <<pc, leitor, cabecalho, num_colunas, saida, relatorio,
                   valor, tipo>>

\* the reader is exhausted, the loop ends and the report is printed
\* (main.py:56, 65, 72-118)
FimDoArquivo ==
    /\ pc = "lendo"
    /\ leitor = "aberto"
    /\ leitor' = "esgotado"
    /\ pc' = "concluido"
    /\ saida' = Append(saida, [msg           |-> "relatorio",
                               total_linhas  |-> contagem_linhas,
                               total_colunas |-> Len(cabecalho)])
    /\ relatorio' = imprimir_relatorio(cabecalho, dados_colunas)
    /\ UNCHANGED <<lidas, cabecalho, num_colunas, dados_colunas,
                   contagem_linhas, valor, tipo>>

Next == AbrirVazio \/ LerCabecalho \/ ProcessarLinha \/ FimDoArquivo

Spec == Init /\ [][Next]_vars

(***************************************************************************)
(* SpecColuna: the report of a one-column file whose rows have all been    *)
(* read; the column takes every sequence of the sample values.             *)
(***************************************************************************)
NomeColuna == <<"x">>

InitColuna ==
    \E col \in SeqAte(ValoresAmostra, MaxColuna) :
        /\ pc = "lendo"
        /\ leitor = "aberto"
        /\ lidas = <<<<NomeColuna>>>> \o [k \in 1..Len(col) |-> <<col[k]>>]
        /\ cabecalho = <<NomeColuna>>
        /\ num_colunas = 1
        /\ dados_colunas = [c \in {NomeColuna} |-> col]
        /\ contagem_linhas = Len(col)
        /\ saida = <<>>
        /\ relatorio = <<>>
        /\ valor = <<>>
        /\ tipo = "pendente"

NextColuna == FimDoArquivo

SpecColuna == InitColuna /\ [][NextColuna]_vars

(***************************************************************************)
(* SpecInferir: one call of inferir_tipo_dado on every string over the     *)
(* alphabet.                                                               *)
(***************************************************************************)
InitInferir ==
    /\ pc = "inicio"
    /\ leitor = "aberto"
    /\ lidas = <<>>
    /\ cabecalho = <<>>
    /\ num_colunas = 0
    /\ dados_colunas = <<>>
    /\ contagem_linhas = 0
    /\ saida = <<>>
    /\ relatorio = <<>>
    /\ valor \in SeqAte(Alfabeto, MaxLen)
    /\ tipo = "pendente"

Inferir ==
    /\ tipo = "pendente"
    /\ tipo' = inferir_tipo_dado(valor)
    /\ UNCHANGED <<pc, leitor, lidas, cabecalho, num_colunas, dados_colunas,
                   contagem_linhas, saida, relatorio, valor>>

NextInferir == Inferir

SpecInferir == InitInferir /\ [][NextInferir]_vars

(***************************************************************************)
(* The input as the reader delivered it, for the statements below.         *)
(***************************************************************************)
TodoBranco(s) == \A k \in 1..Len(s) : s[k] \in Espacos

Aparado(s) == s = <<>> \/ (s[1] \notin Espacos /\ s[Len(s)] \notin Espacos)

CabecalhoLido == lidas[1]

LinhasBemFormadas ==
    {k \in 2..Len(lidas) : Len(lidas[k]) = Len(CabecalhoLido)}

LinhasMalformadas ==
    {k \in 2..Len(lidas) : Len(lidas[k]) # Len(CabecalhoLido)}

\* the raw cells that belong to the column named c: <<row, field>>
CelulasBrutas(c) ==
    {<<k, i>> \in LinhasBemFormadas \X (1..Len(CabecalhoLido)) :
        CabecalhoLido[i] = c}

CabecalhoDistinto ==
    \A i, j \in 1..Len(CabecalhoLido) :
        CabecalhoLido[i] = CabecalhoLido[j] => i = j

\* field i of the well-formed rows among the first m rows read, in order
RECURSIVE Projecao(_, _)
Projecao(i, m) ==
    IF m < 2 THEN <<>>
    ELSE IF m \in LinhasBemFormadas
         THEN Append(Projecao(i, m - 1), strip(lidas[m][i]))
         ELSE Projecao(i, m - 1)

RECURSIVE SomaContagens(_)
SomaContagens(c) ==
    IF c = <<>> THEN 0 ELSE c[1][2] + SomaContagens(Tail(c))

EhPrefixo(a, b) == Len(a) <= Len(b) /\ a = SubSeq(b, 1, Len(a))

(***************************************************************************)
(* C1: ingesting a row whose field count differs from the header's         *)
(* increments the row count by one and leaves every column's stored        *)
(* values unchanged; no field of a malformed row is ingested.              *)
(***************************************************************************)
C1_LinhaMalformadaNaoIngerida ==
    [][ ( /\ pc = "lendo"
          /\ Len(lidas') = Len(lidas) + 1
          /\ Len(lidas'[Len(lidas')]) # Len(CabecalhoLido) )
        => /\ contagem_linhas' = contagem_linhas + 1
           /\ dados_colunas' = dados_colunas ]_vars

C1_Witness ==
    /\ pc = "lendo"
    /\ Len(lidas) = 3
    /\ Len(CabecalhoLido) = 2
    /\ Len(lidas[2]) = 2
    /\ Len(lidas[3]) = 1
    /\ \E c \in DOMAIN dados_colunas : dados_colunas[c] # <<>>
    /\ contagem_linhas = 2

(***************************************************************************)
(* C2: for every column, after any sequence of ingested rows, the total    *)
(* count is the empty count plus the sum of the frequency table; a value   *)
(* is empty exactly when nothing is left of it after trimming, and the     *)
(* frequency table holds only trimmed non-empty values.                    *)
(***************************************************************************)
C2_ConservacaoDeContagem ==
    \A c \in DOMAIN dados_colunas :
        LET vc   == dados_colunas[c]
            freq == contagem_valores(vc)
        IN  /\ total_valores(vc) = valores_vazios(vc) + SomaContagens(freq)
            /\ total_valores(vc) = Cardinality(CelulasBrutas(c))
            /\ valores_vazios(vc) =
                   Cardinality({x \in CelulasBrutas(c) :
                                    TodoBranco(lidas[x[1]][x[2]])})
            /\ \A k \in 1..Len(freq) :
                   /\ freq[k][1] # <<>>
                   /\ Aparado(freq[k][1])
                   /\ freq[k][2] >= 1

C2_Witness ==
    /\ LinhasMalformadas # {}
    /\ \E c \in DOMAIN dados_colunas :
           /\ valores_vazios(dados_colunas[c]) >= 1
           /\ contagem_valores(dados_colunas[c]) # <<>>
           /\ \E x \in CelulasBrutas(c) : lidas[x[1]][x[2]] = <<" ">>

(***************************************************************************)
(* C3: when the header names are pairwise distinct, the row count is the   *)
(* number of malformed rows plus the number of dispatched rows, and every  *)
(* column holds exactly one value per dispatched row: field i of each      *)
(* well-formed row, in order, in the column of header i.                   *)
(***************************************************************************)
C3_ContabilidadeDeLinhas ==
    (pc \in {"lendo", "concluido"} /\ CabecalhoDistinto)
    => /\ contagem_linhas =
              Cardinality(LinhasMalformadas) + Cardinality(LinhasBemFormadas)
       /\ DOMAIN dados_colunas = Range(CabecalhoLido)
       /\ \A i \in 1..Len(CabecalhoLido) :
              /\ Len(dados_colunas[CabecalhoLido[i]]) =
                     Cardinality(LinhasBemFormadas)
              /\ dados_colunas[CabecalhoLido[i]] = Projecao(i, Len(lidas))

C3_Witness ==
    /\ pc = "lendo"
    /\ Len(lidas) = 3
    /\ CabecalhoLido = << <<"x">>, <<"y">> >>
    /\ lidas[2] = << <<" ", "a", " ">> >>
    /\ lidas[3] = << <<" ", "a", " ">>, <<" ">> >>
    /\ dados_colunas[<<"x">>] = << <<"a">> >>
    /\ dados_colunas[<<"y">>] = << <<>> >>

(***************************************************************************)
(* C7: the report gives a predominant type and a top list for a column if  *)
(* and only if the column has a value that is not empty after trimming; a  *)
(* column of empty or whitespace-only values, or of no value, is reported  *)
(* as all-empty with neither, and the report goes on with the remaining    *)
(* columns in header order.                                                *)
(***************************************************************************)
C7_ColunaTodaVazia ==
    pc = "concluido"
    => /\ Len(relatorio) = Len(CabecalhoLido)
       /\ \A i \in 1..Len(CabecalhoLido) :
              LET b == relatorio[i]
              IN  /\ b.coluna = CabecalhoLido[i]
                  /\ b.todos_vazios <=>
                         \A x \in CelulasBrutas(CabecalhoLido[i]) :
                             TodoBranco(lidas[x[1]][x[2]])
                  /\ b.todos_vazios =>
                         DOMAIN b = {"coluna", "todos_vazios"}
                  /\ ~b.todos_vazios =>
                         /\ b.tipo \in {"INT", "FLOAT", "STRING"}
                         /\ b.mais_comuns # <<>>

C7_Witness ==
    /\ pc = "concluido"
    /\ Len(relatorio) = 2
    /\ relatorio[1].todos_vazios
    /\ ~relatorio[2].todos_vazios
    /\ \E x \in CelulasBrutas(CabecalhoLido[1]) : lidas[x[1]][x[2]] = <<" ">>

(***************************************************************************)
(* C8: when the reader yields no row at all, the analysis ends in the      *)
(* empty-header failure and nothing else: no report, no column, no row.    *)
(***************************************************************************)
C8_ArquivoSemLinhas ==
    /\ (pc # "inicio" /\ lidas = <<>>)
       => /\ pc = "erro_vazio"
          /\ saida = <<[msg |-> "erro_vazio"]>>
          /\ relatorio = <<>>
          /\ dados_colunas = <<>>
          /\ contagem_linhas = 0
    /\ pc = "erro_vazio" => lidas = <<>> /\ leitor = "esgotado"

C8_Witness == pc = "erro_vazio" /\ leitor = "esgotado"

(***************************************************************************)
(* C9: a header row with zero fields fails with the empty-header error:    *)
(* no accumulators are created, no row is ingested and no report is        *)
(* produced.                                                               *)
(***************************************************************************)
C9_CabecalhoSemCampos ==
    (lidas # <<>> /\ CabecalhoLido = <<>>)
    => /\ pc # "concluido"
       /\ relatorio = <<>>
       /\ \A k \in 1..Len(saida) : saida[k].msg = "erro_vazio"
       /\ contagem_linhas = 0
       /\ dados_colunas = <<>>

(***************************************************************************)
(* C10: the lifecycle is inicio -> lendo -> concluido: each step of the    *)
(* loop takes the next row of the input and adds its values after the ones *)
(* already stored, the report is built at most once and only when the      *)
(* reader is exhausted, nothing is ingested afterwards, and building the   *)
(* report changes neither the row count nor any stored value.              *)
(***************************************************************************)
C10_CicloDeVida ==
    [][ /\ <<pc, pc'>> \in { <<"inicio", "lendo">>, <<"inicio", "erro_vazio">>,
                             <<"lendo", "lendo">>, <<"lendo", "concluido">> }
        /\ leitor = "aberto"
        /\ (pc = "lendo" /\ pc' = "lendo")
           => /\ Len(lidas') = Len(lidas) + 1
              /\ EhPrefixo(lidas, lidas')
              /\ contagem_linhas' = contagem_linhas + 1
              /\ relatorio' = <<>>
              /\ \A c \in DOMAIN dados_colunas :
                     EhPrefixo(dados_colunas[c], dados_colunas'[c])
        /\ (relatorio' # relatorio \/ saida' # saida \/ pc' = "concluido")
           => /\ pc \in {"inicio", "lendo"}
              /\ pc' \in {"concluido", "erro_vazio"}
              /\ relatorio = <<>>
              /\ saida = <<>>
              /\ leitor' = "esgotado"
              /\ lidas' = lidas
              /\ contagem_linhas' = contagem_linhas
              /\ dados_colunas' = dados_colunas
      ]_vars

C10_Witness ==
    /\ pc = "concluido"
    /\ leitor = "esgotado"
    /\ contagem_linhas = 2
    /\ Len(relatorio) = 2
    /\ \E c \in DOMAIN dados_colunas : Len(dados_colunas[c]) = 2

(***************************************************************************)
(* The column of SpecColuna, counted directly.                             *)
(***************************************************************************)
ColunaLida == dados_colunas[NomeColuna]

Distintos == Range(ColunaLida) \ {<<>>}

Ocorrencias(v) == Cardinality({k \in 1..Len(ColunaLida) : ColunaLida[k] = v})

PrimeiraOcorrencia(v) ==
    CHOOSE k \in 1..Len(ColunaLida) :
        /\ ColunaLida[k] = v
        /\ \A j \in 1..(k - 1) : ColunaLida[j] # v

TiposNaoVazios == {"int", "float", "string"}

\* the type of each sample value, as inferir_tipo_dado gives it
TipoDaAmostra == [v \in ValoresAmostra |-> inferir_tipo_dado(v)]

PosicoesDoTipo(t) ==
    {k \in 1..Len(ColunaLida) :
        ColunaLida[k] # <<>> /\ TipoDaAmostra[ColunaLida[k]] = t}

Tally(t) == Cardinality(PosicoesDoTipo(t))

TiposNoMaximo ==
    {t \in TiposNaoVazios : \A u \in TiposNaoVazios : Tally(u) <= Tally(t)}

ColunaAnalisada ==
    /\ pc = "concluido"
    /\ Len(relatorio) = 1
    /\ ~relatorio[1].todos_vazios

(***************************************************************************)
(* C4: for a column with a non-empty value the top list has                *)
(* min(5, distinct count) entries, each a distinct non-empty value with    *)
(* its exact count; a listed value has a count >= that of every unlisted   *)
(* one; entries are in descending count, equal counts in the order of      *)
(* first occurrence in the column, also at the cut between the 5th and     *)
(* the 6th value.                                                          *)
(***************************************************************************)
C4_MaisComuns ==
    ColunaAnalisada
    => LET top      == relatorio[1].mais_comuns
           listados == {top[k][1] : k \in 1..Len(top)}
       IN  /\ Len(top) = Min(5, Cardinality(Distintos))
           /\ \A k \in 1..Len(top) :
                  /\ top[k][1] \in Distintos
                  /\ top[k][2] = Ocorrencias(top[k][1])
           /\ Cardinality(listados) = Len(top)
           /\ \A k \in 1..Len(top) : \A v \in Distintos \ listados :
                  \/ top[k][2] > Ocorrencias(v)
                  \/ /\ top[k][2] = Ocorrencias(v)
                     /\ PrimeiraOcorrencia(top[k][1]) < PrimeiraOcorrencia(v)
           /\ \A j, k \in 1..Len(top) :
                  j < k => \/ top[j][2] > top[k][2]
                           \/ /\ top[j][2] = top[k][2]
                              /\ PrimeiraOcorrencia(top[j][1])
                                     < PrimeiraOcorrencia(top[k][1])

C4_Witness ==
    /\ ColunaAnalisada
    /\ Cardinality(Distintos) = 6
    /\ Len(relatorio[1].mais_comuns) = 5
    /\ \E v \in Distintos :
           /\ \A k \in 1..5 : relatorio[1].mais_comuns[k][1] # v
           /\ Ocorrencias(v) = relatorio[1].mais_comuns[5][2]

(***************************************************************************)
(* C5 as stated: the predominant type has the highest tally among the      *)
(* non-empty values and, among the types that share the highest tally, is  *)
(* the first in the order Empty < Integer < Float < Text, whatever the     *)
(* order of the values in the column.                                      *)
(***************************************************************************)
C5_DesempatePorPrecedencia ==
    ColunaAnalisada
    => \E i \in 1..Len(Precedencia) :
           /\ relatorio[1].tipo = upper(Precedencia[i])
           /\ Precedencia[i] \in TiposNoMaximo
           /\ \A j \in 1..(i - 1) : Precedencia[j] \notin TiposNoMaximo

(***************************************************************************)
(* C5 amended: the predominant type has the highest tally among the        *)
(* non-empty values and, among the types that share the highest tally, is  *)
(* the one whose first value comes earliest in the column: "10.5","20"     *)
(* give Float and "20","10.5" give Integer.                                *)
(***************************************************************************)
C5_DesempatePorPrimeiraOcorrencia ==
    ColunaAnalisada
    => \E t \in TiposNoMaximo :
           /\ relatorio[1].tipo = upper(t)
           /\ \A u \in TiposNoMaximo \ {t} :
                  \E k \in PosicoesDoTipo(t) :
                      \A m \in PosicoesDoTipo(u) : k < m

C5_Witness ==
    /\ ColunaAnalisada
    /\ ColunaLida = << <<"1", ".", "5">>, <<"7">> >>
    /\ relatorio[1].tipo = "FLOAT"

(***************************************************************************)
(* The grammars of C6, written as decompositions of the string.            *)
(***************************************************************************)
SoDigitos(d) == d # <<>> /\ \A k \in 1..Len(d) : d[k] \in Digitos

\* digits in which single underscores may separate digits
GrupoDeDigitos(d) ==
    /\ d # <<>>
    /\ d[1] \in Digitos
    /\ d[Len(d)] \in Digitos
    /\ \A k \in 1..Len(d) : d[k] \in Digitos \cup {"_"}
    /\ \A k \in 1..(Len(d) - 1) : ~(d[k] = "_" /\ d[k + 1] = "_")

\* the digits of a literal: with separating underscores allowed or not
Grupo(d, sublinhados) ==
    IF sublinhados THEN GrupoDeDigitos(d) ELSE SoDigitos(d)

\* s is sign, mantissa and exponent
LiteralDecimal(s, sublinhados) ==
    LET b == SemSinal(s)
    IN  \E i \in 0..Len(b) : \E j \in i..Len(b) :
            LET int  == SubSeq(b, 1, i)
                mid  == SubSeq(b, i + 1, j)
                frac == IF mid = <<>> THEN <<>> ELSE Tail(mid)
                ex   == SubSeq(b, j + 1, Len(b))
            IN  /\ int = <<>> \/ Grupo(int, sublinhados)
                /\ mid = <<>>
                   \/ (mid[1] = "." /\ (frac = <<>> \/ Grupo(frac, sublinhados)))
                /\ int # <<>> \/ frac # <<>>
                /\ \/ ex = <<>>
                   \/ /\ ex[1] \in {"e", "E"}
                      /\ Grupo(SemSinal(Tail(ex)), sublinhados)

\* t is s without its leading and trailing whitespace
SemBrancosAoRedor(s, t) ==
    \E a \in 0..Len(s) : \E b \in a..Len(s) :
        /\ t = SubSeq(s, a + 1, b)
        /\ TodoBranco(SubSeq(s, 1, a))
        /\ TodoBranco(SubSeq(s, b + 1, Len(s)))
        /\ Aparado(t)

Subcadeias(s) == {SubSeq(s, a + 1, b) : a \in 0..Len(s), b \in 0..Len(s)}

TipoComoDeclarado(s) ==
    IF Len(s) = 0 THEN "vazio"
    ELSE IF SoDigitos(SemSinal(s)) THEN "int"
    ELSE IF LiteralDecimal(s, FALSE) THEN "float"
    ELSE "string"

TipoEmendado(s) ==
    IF Len(s) = 0 THEN "vazio"
    ELSE IF \E t \in Subcadeias(s) :
                SemBrancosAoRedor(s, t) /\ GrupoDeDigitos(SemSinal(t))
         THEN "int"
    ELSE IF \E t \in Subcadeias(s) :
                /\ SemBrancosAoRedor(s, t)
                /\ \/ LiteralDecimal(t, TRUE)
                   \/ Minusculas(SemSinal(t)) \in PalavrasNaoFinitas
         THEN "float"
    ELSE "string"

(***************************************************************************)
(* C6 as stated: Empty if the string has zero length; otherwise Integer if *)
(* the whole string is an optional '+' or '-' followed by digits only;     *)
(* otherwise Float if the whole string is a decimal or exponential         *)
(* literal; otherwise Text. Stated here of the strings that carry no       *)
(* leading or trailing whitespace, as every stored cell does.              *)
(***************************************************************************)
C6_InferenciaComoDeclarada ==
    (tipo # "pendente" /\ Aparado(valor)) => tipo = TipoComoDeclarado(valor)

(***************************************************************************)
(* C6 amended: Empty if the string has zero length; otherwise Integer if,  *)
(* leading and trailing whitespace set aside, it is an optional '+' or '-' *)
(* followed by digits in which single underscores may separate digits;     *)
(* otherwise Float if, whitespace set aside likewise, it is a decimal or   *)
(* exponential literal whose digit groups may hold such underscores, or an *)
(* optionally signed inf, infinity or nan in any letter case; otherwise    *)
(* Text. "42" is Integer, "42.0" Float, "42abc" Text and "" Empty.         *)
(***************************************************************************)
C6_InferenciaEmendada ==
    /\ tipo # "pendente" => tipo = TipoEmendado(valor)
    /\ inferir_tipo_dado(<<"4", "2">>) = "int"
    /\ inferir_tipo_dado(<<"4", "2", ".", "0">>) = "float"
    /\ inferir_tipo_dado(<<"4", "2", "a", "b", "c">>) = "string"
    /\ inferir_tipo_dado(<<>>) = "vazio"

C6_Witness ==
    /\ tipo = "int"
    /\ valor = <<"4", "_", "4">>

====
